---- MODULE Spec2Model ----
(***************************************************************************)
(* A model of open_spiel/utils/file.cc: the directory operations (Exists,  *)
(* IsDirectory, Mkdir, Mkdirs, Remove) over a POSIX or Windows directory   *)
(* tree, the File handle (open, Read, Write, Seek, Tell, Length,           *)
(* ReadContents, Flush, Close, move, destruction) over C streams, GetEnv   *)
(* and GetTmpDir over the environment, WindowsRootPrefixLength, and the    *)
(* walk of Mkdirs, alone and with two callers interleaved.                 *)
(*                                                                         *)
(* A path is a sequence of one-character strings.  The directory tree maps *)
(* a node (the sequence of a path's components) to the file-type bits of   *)
(* its st_mode, 0 for an absent entry.  The working directory is the root. *)
(***************************************************************************)
EXTENDS Integers, Sequences, FiniteSets, TLC

VARIABLES
  win32,     \* the build: TRUE when _WIN32 is defined
  env,       \* the environment: variable name -> what getenv finds
  calls,     \* caller -> the call of Mkdirs it is in, and where in it
  fs,        \* node -> file-type bits of st_mode, 0 when absent
  data,      \* node -> contents of the regular file at the node
  alive,     \* the File objects that are constructed and not yet destroyed
  fd,        \* File object -> the stream its fd_ holds, 0 for none
  streams,   \* stream id -> the state of the FILE
  lastOp,    \* the operation that ran last
  lastArg,   \* its arguments
  lastRet,   \* the boolean it returned; FALSE too when it threw
  lastOut,   \* the bytes it returned
  lastNum    \* the byte count it returned

vars ==
  <<win32, env, calls, fs, data, alive, fd, streams, lastOp, lastArg, lastRet, lastOut,
    lastNum>>

\* what the operation that ran leaves for its caller
Returns(op, arg, ret, out, num) ==
  /\ lastOp' = op
  /\ lastArg' = arg
  /\ lastRet' = ret
  /\ lastOut' = out
  /\ lastNum' = num

----------------------------------------------------------------------------
(* Bounds of the model *)

\* the deepest node of the directory tree
MaxDepth == 2
\* the longest path string passed to an operation
MaxPathLen == 3

\* the names of the tree's entries, one character each
Names == {"a", "b"}

SeqsUpTo(S, n) == UNION {[1..k -> S] : k \in 0..n}

Nodes == SeqsUpTo(Names, MaxDepth)

Root == <<>>

----------------------------------------------------------------------------
(* <sys/stat.h>: the file-type bits of st_mode *)

S_IFMT == 61440
S_IFSOCK == 49152
S_IFREG == 32768
S_IFBLK == 24576
S_IFDIR == 16384

\* x & y
RECURSIVE BitAnd(_, _)
BitAnd(x, y) ==
  IF x = 0 \/ y = 0 THEN 0
  ELSE IF x % 4096 = 0 /\ y % 4096 = 0
  THEN 4096 * BitAnd(x \div 4096, y \div 4096)
  ELSE (x % 2) * (y % 2) + 2 * BitAnd(x \div 2, y \div 2)

\* S_ISDIR(m), (m & S_IFMT) == S_IFDIR: what the kernel and std::filesystem
\* take a directory to be.  The file type is the octal digits above 07777.
S_ISDIR(m) == (m \div 4096) % (S_IFMT \div 4096 + 1) = S_IFDIR \div 4096

----------------------------------------------------------------------------
(* std::string *)

npos == -1

\* path.find_first_of(chars, from), 0-based; npos when there is none
find_first_of(path, chars, from) ==
  LET hits == {i \in 0..(Len(path) - 1) : i >= from /\ path[i + 1] \in chars}
  IN IF hits = {} THEN npos
     ELSE CHOOSE i \in hits : \A j \in hits : i <= j

\* path.substr(0, pos)
substr(path, pos) ==
  IF pos = npos \/ pos >= Len(path) THEN path ELSE SubSeq(path, 1, pos)

----------------------------------------------------------------------------
(* internal::WindowsRootPrefixLength *)

WindowsRootPrefixLengthImpl(path, w) ==
  IF ~w THEN 0
  ELSE IF Len(path) > 1 /\ path[2] = ":"
  THEN IF Len(path) > 2 /\ path[3] \in {"\\", "/"} THEN 3 ELSE 2
  ELSE IF Len(path) > 1 /\ path[1] = "\\" /\ path[2] = "\\"
  THEN LET p1 == find_first_of(path, {"\\", "/"}, 2)
       IN IF p1 = npos THEN Len(path)
          ELSE LET p2 == find_first_of(path, {"\\", "/"}, p1 + 1)
               IN IF p2 = npos THEN Len(path) ELSE p2
  ELSE 0

WindowsRootPrefixLength(path, w) == WindowsRootPrefixLengthImpl(path, w)

----------------------------------------------------------------------------
(* The operating system's path resolution *)

\* the characters the platform resolves as separators
Separators(w) == IF w THEN {"\\", "/"} ELSE {"/"}

\* every name of the path is one character long
WellSpelled(path, w) ==
  \A i \in 1..(Len(path) - 1) :
     path[i] \in Separators(w) \/ path[i + 1] \in Separators(w)

IsPosixName(c) == c \notin Separators(FALSE)

\* the names of a path, each the string of the characters between two
\* separators, the empty ones dropped
Split(path, seps) ==
  LET upTo[i \in 0..Len(path)] ==
        IF i = 0 THEN [names |-> <<>>, name |-> ""]
        ELSE IF path[i] \in seps
        THEN [names |-> IF upTo[i - 1].name = "" THEN upTo[i - 1].names
                        ELSE Append(upTo[i - 1].names, upTo[i - 1].name),
              name |-> ""]
        ELSE [names |-> upTo[i - 1].names, name |-> upTo[i - 1].name \o path[i]]
      end == upTo[Len(path)]
  IN IF end.name = "" THEN end.names ELSE Append(end.names, end.name)

\* the letters that name a drive, among the characters of the model's paths
DriveLetters == {"C"}

\* the node a Windows path names: under its drive when it starts with one,
\* under the network, its server and its share when it starts with two
\* separators
WindowsComponents(path) ==
  IF Len(path) >= 2 /\ path[1] \in DriveLetters /\ path[2] = ":"
  THEN <<path[1] \o ":">> \o Split(SubSeq(path, 3, Len(path)), Separators(TRUE))
  ELSE IF /\ Len(path) >= 2
          /\ path[1] \in Separators(TRUE) /\ path[2] \in Separators(TRUE)
  THEN <<"\\\\">> \o Split(path, Separators(TRUE))
  ELSE Split(path, Separators(TRUE))

\* the nodes no directory can be made at: a drive, and the network, a
\* server and a share of a UNC path
IsRootNode(node, w) ==
  /\ w
  /\ node # <<>>
  /\ \/ Len(node) = 1 /\ node[1] \in {l \o ":" : l \in DriveLetters}
     \/ Len(node) <= 3 /\ node[1] = "\\\\"

\* the node a path names: its names, the separators dropped
Components(path, w) ==
  IF w THEN WindowsComponents(path)
  ELSE IF WellSpelled(path, FALSE) THEN SelectSeq(path, IsPosixName)
  ELSE Split(path, Separators(FALSE))

At(f, node) == IF node \in DOMAIN f THEN f[node] ELSE 0

Prefix(node, k) == SubSeq(node, 1, k)

\* every directory on the way to the node is a directory
Walkable(f, node) ==
  \A k \in 0..(Len(node) - 1) : S_ISDIR(At(f, Prefix(node, k)))

HasChild(f, node) ==
  \E n \in DOMAIN f : Len(n) = Len(node) + 1 /\ Prefix(n, Len(node)) = node /\ f[n] # 0

TrailingSep(path, w) == path # <<>> /\ path[Len(path)] \in Separators(w)

\* stat(path, &info): info.st_mode when it returns 0, and 0 when it fails
stat(f, path, w) ==
  LET node == Components(path, w)
  IN IF path = <<>> THEN 0
     ELSE IF ~Walkable(f, node) THEN 0
     ELSE IF At(f, node) = 0 THEN 0
     ELSE IF TrailingSep(path, w) /\ ~S_ISDIR(At(f, node)) THEN 0
     ELSE At(f, node)

\* mkdir(path, mode)
mkdir(f, path, w) ==
  LET node == Components(path, w)
  IN IF \/ path = <<>> \/ ~Walkable(f, node) \/ At(f, node) # 0
        \/ node \notin DOMAIN f \/ IsRootNode(node, w)
     THEN [ret |-> FALSE, fs |-> f]
     ELSE [ret |-> TRUE, fs |-> [f EXCEPT ![node] = S_IFDIR]]

\* rmdir(path)
rmdir(f, path, w) ==
  LET node == Components(path, w)
  IN IF path = <<>> \/ node = Root \/ ~Walkable(f, node)
        \/ ~S_ISDIR(At(f, node)) \/ HasChild(f, node) \/ IsRootNode(node, w)
     THEN [ret |-> FALSE, fs |-> f]
     ELSE [ret |-> TRUE, fs |-> [f EXCEPT ![node] = 0]]

\* unlink(path)
unlink(f, path, w) ==
  LET node == Components(path, w)
  IN IF path = <<>> \/ ~Walkable(f, node) \/ At(f, node) = 0
        \/ S_ISDIR(At(f, node)) \/ TrailingSep(path, w)
     THEN [ret |-> FALSE, fs |-> f]
     ELSE [ret |-> TRUE, fs |-> [f EXCEPT ![node] = 0]]

----------------------------------------------------------------------------
(* std::filesystem *)

RECURSIVE MakeDirs(_, _, _)
MakeDirs(f, node, k) ==
  IF k > Len(node) THEN f
  ELSE MakeDirs(IF f[Prefix(node, k)] = 0
                THEN [f EXCEPT ![Prefix(node, k)] = S_IFDIR] ELSE f,
                node, k + 1)

\* std::filesystem::create_directories(fs_path, ec).  supported = FALSE is a
\* platform whose facility fails with an error; ecOnFile is whether the
\* library reports an existing non-directory as an error (libstdc++ and
\* libc++ do) or only returns false.
create_directories(f, path, w, supported, ecOnFile) ==
  LET node == Components(path, w)
      blocked == \E k \in 1..Len(node) :
                    \/ At(f, Prefix(node, k)) # 0 /\ ~S_ISDIR(At(f, Prefix(node, k)))
                    \/ At(f, Prefix(node, k)) = 0 /\ IsRootNode(Prefix(node, k), w)
  IN IF ~supported \/ path = <<>> \/ node \notin DOMAIN f
     THEN [ret |-> FALSE, ec |-> TRUE, fs |-> f]
     ELSE IF S_ISDIR(At(f, node)) /\ Walkable(f, node)
     THEN [ret |-> FALSE, ec |-> FALSE, fs |-> f]
     ELSE IF blocked
     THEN [ret |-> FALSE,
           ec |-> (ecOnFile \/ At(f, node) = 0 \/ ~Walkable(f, node)),
           fs |-> f]
     ELSE [ret |-> TRUE, ec |-> FALSE, fs |-> MakeDirs(f, node, 1)]

\* std::filesystem::exists and std::filesystem::is_directory
fs_exists(f, path, w) == stat(f, path, w) # 0
fs_is_directory(f, path, w) == S_ISDIR(stat(f, path, w))

----------------------------------------------------------------------------
(* file.cc: the directory operations *)

Exists(f, path, w) == stat(f, path, w) # 0

IsDirectory(f, path, w) ==
  stat(f, path, w) # 0 /\ BitAnd(stat(f, path, w), S_IFDIR) # 0

\* Mkdir returning mkdir's result itself, true for -1 and false for 0
MkdirReturnsStatus(f, path, w) ==
  [ret |-> ~mkdir(f, path, w).ret, fs |-> mkdir(f, path, w).fs]

Mkdir(f, path, w) == mkdir(f, path, w)

\* the manual walk of Mkdirs, from the head of its while loop; tried is the
\* sub-paths it passed to Mkdir, in order
RECURSIVE MkdirsFallback(_, _, _, _)
MkdirsFallback(f, path, pos, w) ==
  IF pos = npos THEN [ret |-> TRUE, fs |-> f, tried |-> <<>>]
  ELSE LET next == find_first_of(path, {"\\", "/"}, pos + 1)
           sub_path == substr(path, next)
           info == stat(f, sub_path, w)
       IN IF sub_path = <<>> THEN MkdirsFallback(f, path, next, w)
          ELSE IF info # 0
          THEN IF BitAnd(info, S_IFDIR) # 0
               THEN MkdirsFallback(f, path, next, w)
               ELSE [ret |-> FALSE, fs |-> f, tried |-> <<>>]
          ELSE LET made == Mkdir(f, sub_path, w)
                   rest == MkdirsFallback(made.fs, path, next, w)
               IN IF ~made.ret
                  THEN [ret |-> FALSE, fs |-> made.fs, tried |-> <<sub_path>>]
                  ELSE [rest EXCEPT !.tried = <<sub_path>> \o @]

\* Mkdirs without its test for the empty path
MkdirsOfAnyPath(f, path, w, supported, ecOnFile) ==
  LET primary == create_directories(f, path, w, supported, ecOnFile)
  IN IF primary.ret THEN [ret |-> TRUE, fs |-> primary.fs, tried |-> <<>>]
     ELSE IF ~primary.ec /\ fs_exists(primary.fs, path, w)
     THEN [ret |-> fs_is_directory(primary.fs, path, w), fs |-> primary.fs,
           tried |-> <<>>]
     ELSE MkdirsFallback(primary.fs, path, WindowsRootPrefixLength(path, w), w)

Mkdirs(f, path, w, supported, ecOnFile) ==
  IF path = <<>> THEN [ret |-> FALSE, fs |-> f, tried |-> <<>>]
  ELSE LET primary == create_directories(f, path, w, supported, ecOnFile)
       IN IF primary.ret THEN [ret |-> TRUE, fs |-> primary.fs, tried |-> <<>>]
          ELSE IF ~primary.ec /\ fs_exists(primary.fs, path, w)
          THEN [ret |-> fs_is_directory(primary.fs, path, w),
                fs |-> primary.fs, tried |-> <<>>]
          ELSE MkdirsFallback(primary.fs, path,
                              WindowsRootPrefixLength(path, w), w)

Remove(f, path, w) ==
  IF IsDirectory(f, path, w) THEN rmdir(f, path, w) ELSE unlink(f, path, w)

----------------------------------------------------------------------------
(* The environment and file.cc: GetEnv, GetTmpDir.  A variable of the      *)
(* environment is unset (getenv returns nullptr) or set to a string, the   *)
(* empty string included; a string is the sequence of its separators and   *)
(* names.                                                                  *)

EnvKeys == {"TMPDIR", "TMP", "TEMP", "LOCALAPPDATA"}

Unset == [set |-> FALSE, val |-> <<>>]

Value(v) == [set |-> TRUE, val |-> v]

NoEnv == [key \in EnvKeys |-> Unset]

\* std::getenv(key)
getenv(e, key) == e[key]

\* setenv(key, value, 1); _putenv_s(key, value) on Windows, where the empty
\* value removes the variable
setenv(e, w, key, value) ==
  [e EXCEPT ![key] = IF w /\ value = <<>> THEN Unset ELSE Value(value)]

\* unsetenv(key)
unsetenv(e, key) == [e EXCEPT ![key] = Unset]

GetEnv(e, key, default_value) ==
  IF getenv(e, key).set THEN getenv(e, key).val ELSE default_value

GetTmpDir(e) == GetEnv(e, "TMPDIR", <<"/", "tmp">>)

----------------------------------------------------------------------------
(* Byte counts.  A count of bytes (a size_t, an int64_t that is not         *)
(* negative) is <<hi, lo>>, standing for hi * 2^30 + lo with lo < 2^30:      *)
(* the counts that do not fit an int have to be told from those that do.    *)

TwoTo30 == 1073741824

Sz(n) == <<n \div TwoTo30, n % TwoTo30>>

SzAdd(x, y) ==
  IF x[2] + y[2] >= TwoTo30 THEN <<x[1] + y[1] + 1, x[2] + y[2] - TwoTo30>>
  ELSE <<x[1] + y[1], x[2] + y[2]>>

SzLess(x, y) == x[1] < y[1] \/ (x[1] = y[1] /\ x[2] < y[2])

SzLeq(x, y) == ~SzLess(y, x)

\* x - y, and 0 when y is the larger
SzSub(x, y) ==
  IF SzLeq(x, y) THEN <<0, 0>>
  ELSE IF x[2] >= y[2] THEN <<x[1] - y[1], x[2] - y[2]>>
  ELSE <<x[1] - y[1] - 1, x[2] + TwoTo30 - y[2]>>

SzMin(x, y) == IF SzLess(x, y) THEN x ELSE y

\* INT_MAX, 2^31 - 1, and INT_MAX + 1
INT_MAX == <<1, TwoTo30 - 1>>
INT_MAX_plus_1 == <<2, 0>>

\* the conversion of a size_t to int: the count modulo 2^32, taken as
\* negative from 2^31 on
ToInt(x) ==
  IF x[1] % 4 >= 2 THEN ((x[1] % 4) - 4) * TwoTo30 + x[2]
  ELSE (x[1] % 4) * TwoTo30 + x[2]

----------------------------------------------------------------------------
(* std::string and file contents: a byte string is a sequence of runs        *)
(* <<byte, count>>, no run empty and no two adjacent runs of the same byte.  *)

\* s.size()
RECURSIVE BLen(_)
BLen(s) == IF s = <<>> THEN <<0, 0>> ELSE SzAdd(s[1][2], BLen(Tail(s)))

\* s + t
BCat(s, t) ==
  IF s = <<>> THEN t
  ELSE IF t = <<>> THEN s
  ELSE IF s[Len(s)][1] = t[1][1]
  THEN SubSeq(s, 1, Len(s) - 1)
         \o <<<<t[1][1], SzAdd(s[Len(s)][2], t[1][2])>>>> \o Tail(t)
  ELSE s \o t

\* the first k bytes of s: s.resize(k) for k <= s.size()
RECURSIVE BTake(_, _)
BTake(s, k) ==
  IF k = <<0, 0>> \/ s = <<>> THEN <<>>
  ELSE IF SzLeq(s[1][2], k)
  THEN <<s[1]>> \o BTake(Tail(s), SzSub(k, s[1][2]))
  ELSE <<<<s[1][1], k>>>>

\* s without its first k bytes
RECURSIVE BDrop(_, _)
BDrop(s, k) ==
  IF k = <<0, 0>> \/ s = <<>> THEN s
  ELSE IF SzLeq(s[1][2], k) THEN BDrop(Tail(s), SzSub(k, s[1][2]))
  ELSE <<<<s[1][1], SzSub(s[1][2], k)>>>> \o Tail(s)

\* count bytes of value zero
Zeros(count) == IF count = <<0, 0>> THEN <<>> ELSE <<<<"0", count>>>>

\* the file after s is written at offset off, a gap before off reading as zeros
pwrite(content, off, s) ==
  LET padded == BCat(content, Zeros(SzSub(off, BLen(content))))
  IN BCat(BCat(BTake(padded, off), s), BDrop(padded, SzAdd(off, BLen(s))))

----------------------------------------------------------------------------
(* <cstdio>: a stream is [node, mode, state, pos, wbuf]; wbuf holds the      *)
(* bytes written and not yet flushed, which end at pos.  A world W is the    *)
(* contents of the files and one stream: [data, st].                         *)

Modes == {"r", "w"}

\* std::fopen(filename, mode), for regular files: ok is whether it returned
\* a stream
fopen(f, d, path, mode, w) ==
  LET node == Components(path, w)
      entry == stat(f, path, w)
      opens == IF mode = "r" THEN entry = S_IFREG
               ELSE /\ path # <<>> /\ ~TrailingSep(path, w)
                    /\ node # Root /\ node \in DOMAIN f /\ Walkable(f, node)
                    /\ At(f, node) \in {0, S_IFREG}
  IN [ok |-> opens,
      fs |-> IF opens /\ mode = "w" THEN [f EXCEPT ![node] = S_IFREG] ELSE f,
      data |-> IF opens /\ mode = "w" THEN [d EXCEPT ![node] = <<>>] ELSE d,
      st |-> [node |-> node, mode |-> mode, state |-> "open",
              pos |-> <<0, 0>>, wbuf |-> <<>>]]

\* std::fflush(stream)
fflush(W) ==
  IF W.st.wbuf = <<>> THEN W
  ELSE [data |-> [W.data EXCEPT ![W.st.node] =
                    pwrite(@, SzSub(W.st.pos, BLen(W.st.wbuf)), W.st.wbuf)],
        st |-> [W.st EXCEPT !.wbuf = <<>>]]

\* std::ftell(stream)
ftell(W) == W.st.pos

\* std::fseek(stream, offset, SEEK_SET), the offset not negative
fseek_set(W, offset) ==
  [w |-> [fflush(W) EXCEPT !.st.pos = offset], ret |-> 0]

\* std::fseek(stream, 0, SEEK_END)
fseek_end(W) ==
  [w |-> [fflush(W) EXCEPT !.st.pos = BLen(fflush(W).data[W.st.node])],
   ret |-> 0]

\* std::fread(ptr, 1, count, stream): n bytes read into the buffer
fread(W, count) ==
  LET content == W.data[W.st.node]
      n == IF W.st.mode = "r"
           THEN SzMin(count, SzSub(BLen(content), W.st.pos)) ELSE <<0, 0>>
  IN [w |-> [W EXCEPT !.st.pos = SzAdd(@, n)],
      n |-> n,
      bytes |-> BTake(BDrop(content, W.st.pos), n)]

\* std::fwrite(ptr, 1, size, stream): n bytes written
fwrite(W, str) ==
  IF W.st.mode = "w"
  THEN [w |-> [W EXCEPT !.st.pos = SzAdd(@, BLen(str)),
                        !.st.wbuf = BCat(@, str)],
        n |-> BLen(str)]
  ELSE [w |-> W, n |-> <<0, 0>>]

\* std::fclose(stream): the stream is flushed and is no more
fclose(W) ==
  [w |-> [fflush(W) EXCEPT !.st.state = "closed", !.st.pos = <<0, 0>>],
   ret |-> 0]

----------------------------------------------------------------------------
(* file.cc: the methods of File, on the world of the stream fd_ holds *)

Flush(W) == [w |-> fflush(W), ret |-> TRUE]

Tell(W) == ftell(W)

Seek(W, offset) ==
  [w |-> fseek_set(W, offset).w, ret |-> fseek_set(W, offset).ret = 0]

\* ok is FALSE when out.resize(read) throws std::length_error, read being
\* negative and so, as a size_t, above max_size()
Read(W, count) ==
  LET got == fread(W, count)
      read == ToInt(got.n)
  IN IF read < 0 THEN [w |-> got.w, ok |-> FALSE, out |-> <<>>]
     ELSE [w |-> got.w, ok |-> TRUE, out |-> BTake(got.bytes, Sz(read))]

Write(W, str) == [w |-> fwrite(W, str).w, ret |-> fwrite(W, str).n = BLen(str)]

\* Length that leaves the stream at its end, the last fseek left out
LengthStaysAtEnd(W) == [w |-> fseek_end(W).w, ret |-> ftell(fseek_end(W).w)]

Length(W) ==
  LET current == ftell(W)
      atEnd == fseek_end(W).w
      length == ftell(atEnd)
  IN [w |-> fseek_set(atEnd, current).w, ret |-> length]

ReadContents(W) ==
  Read(Length(Seek(W, <<0, 0>>).w).w, Length(Seek(W, <<0, 0>>).w).ret)

Close(W) == [w |-> fclose(W).w, ret |-> fclose(W).ret = 0]

\* ~File() of a File whose fd_ holds a stream
Destructor(W) == Close(Flush(W).w).w

\* ReadContentsFromFile(filename, mode), opened being what the fopen of
\* File f(filename, mode) gave: f is destroyed on the return and when Read
\* throws
ReadContentsFromFile(opened) ==
  LET got == ReadContents([data |-> opened.data, st |-> opened.st])
  IN [fs |-> opened.fs, data |-> Destructor(got.w).data,
      ok |-> got.ok, out |-> got.out]

\* WriteContentsToFile(filename, mode, contents), opened being what the
\* fopen of File f(filename, mode) gave
WriteContentsToFile(opened, contents) ==
  LET wrote == Write([data |-> opened.data, st |-> opened.st], contents)
  IN [fs |-> opened.fs, data |-> Destructor(wrote.w).data]

----------------------------------------------------------------------------
(* The directory operations as a state machine *)

PathChars == Names \cup {"/"}

\* the paths handed to the operations: they name a node of the tree
Paths ==
  {p \in SeqsUpTo(PathChars, MaxPathLen) :
     WellSpelled(p, FALSE) /\ Len(Components(p, FALSE)) <= MaxDepth}

\* the entries a file system holds before the program runs
EntryTypes == {0, S_IFDIR, S_IFREG, S_IFSOCK, S_IFBLK}

\* a tree holding the directories down to a node and one entry there
TreeWith(node, type) ==
  [n \in Nodes |->
     IF n = Root THEN S_IFDIR
     ELSE IF n = node THEN type
     ELSE IF Len(n) < Len(node) /\ Prefix(node, Len(n)) = n THEN S_IFDIR
     ELSE 0]

NoData == [n \in Nodes |-> <<>>]

\* the std::filesystem implementations: one that reports an existing
\* non-directory as an error, one that only returns false, and one whose
\* create_directories fails with an error whatever the path
FsImpls == {"reports", "silent", "failing"}

InitDir ==
  /\ win32 = FALSE
  /\ env = NoEnv
  /\ calls = <<>>
  /\ \E node \in Nodes, type \in EntryTypes : fs = TreeWith(node, type)
  /\ data = NoData
  /\ alive = {}
  /\ fd = <<>>
  /\ streams = <<>>
  /\ lastOp = "none"
  /\ lastArg = <<>>
  /\ lastRet = FALSE
  /\ lastOut = <<>>
  /\ lastNum = <<0, 0>>

DoMkdir(path) ==
  LET r == Mkdir(fs, path, win32)
  IN /\ fs' = r.fs
     /\ Returns("Mkdir", path, r.ret, <<>>, <<0, 0>>)
     /\ UNCHANGED <<win32, env, calls, data, alive, fd, streams>>

DoMkdirs(path, impl) ==
  LET r == Mkdirs(fs, path, win32, impl # "failing", impl = "reports")
  IN /\ fs' = r.fs
     /\ Returns("Mkdirs", path, r.ret, <<>>, <<0, 0>>)
     /\ UNCHANGED <<win32, env, calls, data, alive, fd, streams>>

DoRemove(path) ==
  LET r == Remove(fs, path, win32)
  IN /\ fs' = r.fs
     /\ Returns("Remove", path, r.ret, <<>>, <<0, 0>>)
     /\ UNCHANGED <<win32, env, calls, data, alive, fd, streams>>

Next ==
  \/ \E path \in Paths : DoMkdir(path)
  \/ \E path \in Paths, impl \in FsImpls : DoMkdirs(path, impl)
  \/ \E path \in Paths : DoRemove(path)

Spec == InitDir /\ [][Next]_vars

----------------------------------------------------------------------------
(* The File handle as a state machine *)

\* the most streams opened by File objects in one behaviour
MaxStreams == 2
\* the longest file, the one huge file apart
MaxFileLen == 2

Handles == {"f", "f2"}

FilePaths == {<<"a">>}

\* a string of INT_MAX + 1 bytes
Huge == <<<<"z", INT_MAX_plus_1>>>>

WriteStrs ==
  {<<>>, <<<<"x", Sz(1)>>>>, <<<<"x", Sz(1)>>, <<"y", Sz(1)>>>>, Huge}

SeekOffsets == {Sz(n) : n \in 0..MaxFileLen}

ReadCounts == {Sz(n) : n \in 0..MaxFileLen} \cup {INT_MAX, INT_MAX_plus_1}

\* the write keeps the file within the model: short, or the huge string
\* written at the start of an empty file
Fits(st, content, str) ==
  \/ SzLeq(SzAdd(st.pos, BLen(str)), Sz(MaxFileLen))
  \/ str = Huge /\ st.pos = <<0, 0>> /\ st.wbuf = <<>> /\ content = <<>>

\* the position stays within the model: in a short file, or at the last
\* byte or the end of the huge one
PosFits(pos) == SzLeq(pos, Sz(MaxFileLen)) \/ SzLeq(INT_MAX, pos)

Arg(h, src, path, mode, n, str) ==
  [h |-> h, src |-> src, path |-> path, mode |-> mode, n |-> n, str |-> str]

InitFile ==
  /\ win32 = FALSE
  /\ env = NoEnv
  /\ calls = <<>>
  /\ fs = TreeWith(Root, 0)
  /\ data = NoData
  /\ alive = {}
  /\ fd = [h \in Handles |-> 0]
  /\ streams = <<>>
  /\ lastOp = "none"
  /\ lastArg = Arg("", "", <<>>, "", <<0, 0>>, <<>>)
  /\ lastRet = FALSE
  /\ lastOut = <<>>
  /\ lastNum = <<0, 0>>

Owns(h) == h \in alive /\ fd[h] # 0

World(h) == [data |-> data, st |-> streams[fd[h]]]

\* the world after a method of h ran
Becomes(h, W) ==
  /\ data' = W.data
  /\ streams' = [streams EXCEPT ![fd[h]] = W.st]

\* File::File(filename, mode); SPIEL_CHECK_TRUE(fd_) ends the program when
\* the file does not open
DoOpen(h, path, mode) ==
  LET opened == fopen(fs, data, path, mode, win32)
  IN /\ h \notin alive
     /\ Len(streams) < MaxStreams
     /\ opened.ok
     /\ fs' = opened.fs
     /\ data' = opened.data
     /\ streams' = Append(streams, opened.st)
     /\ alive' = alive \cup {h}
     /\ fd' = [fd EXCEPT ![h] = Len(streams) + 1]
     /\ Returns("Open", Arg(h, "", path, mode, <<0, 0>>, <<>>), TRUE, <<>>,
                <<0, 0>>)
     /\ UNCHANGED <<win32, env, calls>>

DoFlush(h) ==
  /\ Owns(h)
  /\ Becomes(h, Flush(World(h)).w)
  /\ Returns("Flush", Arg(h, "", <<>>, "", <<0, 0>>, <<>>),
             Flush(World(h)).ret, <<>>, <<0, 0>>)
  /\ UNCHANGED <<win32, env, calls, fs, alive, fd>>

DoTell(h) ==
  /\ Owns(h)
  /\ Returns("Tell", Arg(h, "", <<>>, "", <<0, 0>>, <<>>), TRUE, <<>>,
             Tell(World(h)))
  /\ UNCHANGED <<win32, env, calls, fs, data, alive, fd, streams>>

DoSeek(h, offset) ==
  /\ Owns(h)
  /\ Becomes(h, Seek(World(h), offset).w)
  /\ Returns("Seek", Arg(h, "", <<>>, "", offset, <<>>),
             Seek(World(h), offset).ret, <<>>, <<0, 0>>)
  /\ UNCHANGED <<win32, env, calls, fs, alive, fd>>

DoRead(h, count) ==
  /\ Owns(h)
  /\ PosFits(Read(World(h), count).w.st.pos)
  /\ Becomes(h, Read(World(h), count).w)
  /\ Returns("Read", Arg(h, "", <<>>, "", count, <<>>),
             Read(World(h), count).ok, Read(World(h), count).out, <<0, 0>>)
  /\ UNCHANGED <<win32, env, calls, fs, alive, fd>>

DoReadContents(h) ==
  /\ Owns(h)
  /\ Becomes(h, ReadContents(World(h)).w)
  /\ Returns("ReadContents", Arg(h, "", <<>>, "", <<0, 0>>, <<>>),
             ReadContents(World(h)).ok, ReadContents(World(h)).out, <<0, 0>>)
  /\ UNCHANGED <<win32, env, calls, fs, alive, fd>>

DoWrite(h, str) ==
  /\ Owns(h)
  /\ Fits(World(h).st, data[World(h).st.node], str)
  /\ Becomes(h, Write(World(h), str).w)
  /\ Returns("Write", Arg(h, "", <<>>, "", <<0, 0>>, str),
             Write(World(h), str).ret, <<>>, <<0, 0>>)
  /\ UNCHANGED <<win32, env, calls, fs, alive, fd>>

DoLength(h) ==
  /\ Owns(h)
  /\ Becomes(h, Length(World(h)).w)
  /\ Returns("Length", Arg(h, "", <<>>, "", <<0, 0>>, <<>>), TRUE, <<>>,
             Length(World(h)).ret)
  /\ UNCHANGED <<win32, env, calls, fs, alive, fd>>

\* File::Close(): std::fclose(fd_.release())
DoClose(h) ==
  /\ Owns(h)
  /\ Becomes(h, Close(World(h)).w)
  /\ fd' = [fd EXCEPT ![h] = 0]
  /\ Returns("Close", Arg(h, "", <<>>, "", <<0, 0>>, <<>>),
             Close(World(h)).ret, <<>>, <<0, 0>>)
  /\ UNCHANGED <<win32, env, calls, fs, alive>>

\* File::~File()
DoDestroy(h) ==
  /\ h \in alive
  /\ IF fd[h] # 0 THEN Becomes(h, Destructor(World(h)))
     ELSE UNCHANGED <<data, streams>>
  /\ fd' = [fd EXCEPT ![h] = 0]
  /\ alive' = alive \ {h}
  /\ Returns("Destroy", Arg(h, "", <<>>, "", <<0, 0>>, <<>>), TRUE, <<>>,
             <<0, 0>>)
  /\ UNCHANGED <<win32, env, calls, fs>>

\* a move that copies the pointer and leaves the source holding it
MoveFdKeepsSource(fds, dst, src) == [fds EXCEPT ![dst] = fds[src]]

\* the fd_ members after fd_ of dst is move-constructed from fd_ of src
MoveFd(fds, dst, src) == [fds EXCEPT ![dst] = fds[src], ![src] = 0]

\* File::File(File&& other)
DoMoveConstruct(dst, src) ==
  /\ dst \notin alive
  /\ src \in alive
  /\ fd' = MoveFd(fd, dst, src)
  /\ alive' = alive \cup {dst}
  /\ Returns("MoveConstruct", Arg(dst, src, <<>>, "", <<0, 0>>, <<>>), TRUE,
             <<>>, <<0, 0>>)
  /\ UNCHANGED <<win32, env, calls, fs, data, streams>>

\* File::operator=(File&& other): fd_ takes the stream of other.fd_, and the
\* stream it held is deleted, neither flushed nor closed
DoMoveAssign(dst, src) ==
  /\ dst \in alive
  /\ src \in alive
  /\ dst # src
  /\ fd' = MoveFd(fd, dst, src)
  /\ streams' = IF fd[dst] # 0
                THEN [streams EXCEPT ![fd[dst]].state = "deleted"]
                ELSE streams
  /\ Returns("MoveAssign", Arg(dst, src, <<>>, "", <<0, 0>>, <<>>), TRUE,
             <<>>, <<0, 0>>)
  /\ UNCHANGED <<win32, env, calls, fs, data, alive>>

DoReadContentsFromFile(path, mode) ==
  \E opened \in {fopen(fs, data, path, mode, win32)} :
    \E r \in {ReadContentsFromFile(opened)} :
      /\ opened.ok
      /\ fs' = r.fs
      /\ data' = r.data
      /\ Returns("ReadContentsFromFile",
                 Arg("", "", path, mode, <<0, 0>>, <<>>), r.ok, r.out,
                 <<0, 0>>)
      /\ UNCHANGED <<win32, env, calls, alive, fd, streams>>

DoWriteContentsToFile(path, mode, contents) ==
  \E opened \in {fopen(fs, data, path, mode, win32)} :
    \E r \in {WriteContentsToFile(opened, contents)} :
      /\ opened.ok
      /\ Fits(opened.st, opened.data[opened.st.node], contents)
      /\ fs' = r.fs
      /\ data' = r.data
      /\ Returns("WriteContentsToFile",
                 Arg("", "", path, mode, <<0, 0>>, contents), TRUE, <<>>,
                 <<0, 0>>)
      /\ UNCHANGED <<win32, env, calls, alive, fd, streams>>

\* one File object that opens, reads, writes and closes, and the two
\* functions that open a file for one read or one write
NextFile ==
  \/ \E path \in FilePaths, mode \in Modes : DoOpen("f", path, mode)
  \/ DoFlush("f")
  \/ DoTell("f")
  \/ \E offset \in SeekOffsets : DoSeek("f", offset)
  \/ \E count \in ReadCounts : DoRead("f", count)
  \/ DoReadContents("f")
  \/ \E str \in WriteStrs : DoWrite("f", str)
  \/ DoLength("f")
  \/ DoClose("f")
  \/ DoDestroy("f")
  \/ \E path \in FilePaths, mode \in Modes : DoReadContentsFromFile(path, mode)
  \/ \E path \in FilePaths, mode \in Modes, contents \in WriteStrs :
        DoWriteContentsToFile(path, mode, contents)

SpecFile == InitFile /\ [][NextFile]_vars

\* the File objects of Handles, opened, written, moved, closed and destroyed
NextOwn ==
  \/ \E h \in Handles, path \in FilePaths, mode \in Modes : DoOpen(h, path, mode)
  \/ \E h \in Handles, str \in WriteStrs : DoWrite(h, str)
  \/ \E h \in Handles : DoTell(h)
  \/ \E h \in Handles : DoClose(h)
  \/ \E h \in Handles : DoDestroy(h)
  \/ \E dst \in Handles, src \in Handles : DoMoveConstruct(dst, src)
  \/ \E dst \in Handles, src \in Handles : DoMoveAssign(dst, src)

SpecOwn == InitFile /\ [][NextOwn]_vars

----------------------------------------------------------------------------
(* The environment as a state machine: the variables are set and unset and *)
(* GetEnv and GetTmpDir read them, over a file system that holds or lacks  *)
(* /tmp and /var/tmp.                                                      *)

\* the values the variables are set to: TMPDIR to nothing, to the existing
\* directory /a, plain and with a trailing separator, and to /n, which does
\* not exist; each of the others to nothing and to a directory of its own
EnvValues(key) ==
  CASE key = "TMPDIR" -> {<<>>, <<"/", "a">>, <<"/", "a", "/">>, <<"/", "n">>}
    [] key = "TMP" -> {<<>>, <<"/", "a">>}
    [] key = "TEMP" -> {<<>>, <<"/", "b">>}
    [] key = "LOCALAPPDATA" -> {<<>>, <<"/", "c">>}

EnvDefaults == {<<>>, <<"/", "a">>}

EnvNodes ==
  {Root, <<"tmp">>, <<"var">>, <<"var", "tmp">>, <<"a">>, <<"b">>, <<"c">>}

\* the file systems: /a, /b, /c and /var are directories, /tmp and /var/tmp
\* are directories or absent
EnvTrees ==
  {[n \in EnvNodes |->
      IF n = <<"tmp">> THEN t
      ELSE IF n = <<"var", "tmp">> THEN v
      ELSE S_IFDIR] : t \in {0, S_IFDIR}, v \in {0, S_IFDIR}}

EnvArg(key, value) == [key |-> key, value |-> value]

InitEnv ==
  /\ win32 \in BOOLEAN
  /\ env = NoEnv
  /\ calls = <<>>
  /\ fs \in EnvTrees
  /\ data = <<>>
  /\ alive = {}
  /\ fd = <<>>
  /\ streams = <<>>
  /\ lastOp = "none"
  /\ lastArg = EnvArg("", <<>>)
  /\ lastRet = FALSE
  /\ lastOut = <<>>
  /\ lastNum = <<0, 0>>

DoSetenv(key, value) ==
  /\ env' = setenv(env, win32, key, value)
  /\ Returns("setenv", EnvArg(key, value), TRUE, <<>>, <<0, 0>>)
  /\ UNCHANGED <<win32, calls, fs, data, alive, fd, streams>>

DoUnsetenv(key) ==
  /\ ~win32
  /\ env' = unsetenv(env, key)
  /\ Returns("unsetenv", EnvArg(key, <<>>), TRUE, <<>>, <<0, 0>>)
  /\ UNCHANGED <<win32, calls, fs, data, alive, fd, streams>>

DoGetEnv(key, default_value) ==
  /\ Returns("GetEnv", EnvArg(key, default_value), TRUE,
             GetEnv(env, key, default_value), <<0, 0>>)
  /\ UNCHANGED <<win32, env, calls, fs, data, alive, fd, streams>>

DoGetTmpDir ==
  /\ Returns("GetTmpDir", EnvArg("", <<>>), TRUE, GetTmpDir(env), <<0, 0>>)
  /\ UNCHANGED <<win32, env, calls, fs, data, alive, fd, streams>>

NextEnv ==
  \/ \E key \in EnvKeys : \E value \in EnvValues(key) : DoSetenv(key, value)
  \/ \E key \in EnvKeys : DoUnsetenv(key)
  \/ \E key \in EnvKeys, default_value \in EnvDefaults :
        DoGetEnv(key, default_value)
  \/ DoGetTmpDir

SpecEnv == InitEnv /\ [][NextEnv]_vars

----------------------------------------------------------------------------
(* internal::WindowsRootPrefixLength applied to a path, on either build *)

\* the longest path handed to WindowsRootPrefixLength
MaxPrefixPathLen == 6

\* a drive letter, a name that is no letter, and the characters the
\* function looks for
PrefixChars == {"C", "1", ":", "\\", "/"}

PrefixPaths == SeqsUpTo(PrefixChars, MaxPrefixPathLen)

InitPrefix ==
  /\ win32 \in BOOLEAN
  /\ env = NoEnv
  /\ calls = <<>>
  /\ fs = <<>>
  /\ data = <<>>
  /\ alive = {}
  /\ fd = <<>>
  /\ streams = <<>>
  /\ lastOp = "none"
  /\ lastArg \in PrefixPaths
  /\ lastRet = FALSE
  /\ lastOut = <<>>
  /\ lastNum = <<0, 0>>

DoWindowsRootPrefixLength ==
  /\ lastOp = "none"
  /\ Returns("WindowsRootPrefixLength", lastArg, TRUE, <<>>,
             Sz(WindowsRootPrefixLength(lastArg, win32)))
  /\ UNCHANGED <<win32, env, calls, fs, data, alive, fd, streams>>

NextPrefix == DoWindowsRootPrefixLength

SpecPrefix == InitPrefix /\ [][NextPrefix]_vars

----------------------------------------------------------------------------
(* Mkdirs over paths with backslashes, drives and UNC shares, on either    *)
(* build: the walk of the fallback and the sub-paths it passes to Mkdir    *)

\* the longest path without a root prefix handed to Mkdirs
MaxWalkLen == 3

WalkChars == {"a", "/", "\\"}

\* a drive, with and without a separator, and a server and a share
WinRootPrefixes ==
  {<<>>, <<"C", ":">>, <<"C", ":", "\\">>, <<"\\", "\\", "s">>,
   <<"\\", "\\", "s", "\\", "h">>, <<"\\", "\\", "s", "\\", "h", "\\">>}

WalkPaths(w) ==
  IF w
  THEN {r \o t : r \in WinRootPrefixes, t \in SeqsUpTo({"a", "\\"}, MaxWalkLen - 1)}
  ELSE SeqsUpTo(WalkChars, MaxWalkLen)

\* the nodes the paths name, and the nodes above them
WalkNodes(w) ==
  UNION {{Prefix(Components(p, w), k) : k \in 0..Len(Components(p, w))} :
           p \in WalkPaths(w)}

PosixWalkNodes == WalkNodes(FALSE)
WindowsWalkNodes == WalkNodes(TRUE)

\* the drive when there is one, and the first unc of the network, the
\* server and the share
RootsPresent(drive, unc) ==
  (IF drive THEN {<<"C:">>} ELSE {})
     \cup {Prefix(<<"\\\\", "s", "h">>, k) : k \in 1..unc}

\* a tree holding the roots, the directories down to a node and one entry
\* there
WalkTree(w, roots, node, type) ==
  [n \in (IF w THEN WindowsWalkNodes ELSE PosixWalkNodes) |->
     IF n = Root \/ n \in roots THEN S_IFDIR
     ELSE IF IsRootNode(n, w) THEN 0
     ELSE IF n = node THEN type
     ELSE IF Len(n) < Len(node) /\ Prefix(node, Len(n)) = n THEN S_IFDIR
     ELSE 0]

WalkArg(path, impl) == [path |-> path, impl |-> impl]

InitWalk ==
  /\ win32 \in BOOLEAN
  /\ env = NoEnv
  /\ calls = <<>>
  /\ \E drive \in BOOLEAN, unc \in 0..3 :
       \E node \in (IF win32 THEN WindowsWalkNodes ELSE PosixWalkNodes),
          type \in {0, S_IFDIR, S_IFREG} :
          /\ win32 \/ (drive /\ unc = 3)
          /\ \A k \in 1..Len(node) :
                IsRootNode(Prefix(node, k), win32)
                   => Prefix(node, k) \in RootsPresent(drive, unc)
          /\ fs = WalkTree(win32, RootsPresent(drive, unc), node, type)
  /\ data = <<>>
  /\ alive = {}
  /\ fd = <<>>
  /\ streams = <<>>
  /\ lastOp = "none"
  /\ lastArg = WalkArg(<<>>, "")
  /\ lastRet = FALSE
  /\ lastOut = <<>>
  /\ lastNum = <<0, 0>>

\* Mkdirs(path), what the walk passed to Mkdir kept
DoMkdirsWalk(path, impl) ==
  LET r == Mkdirs(fs, path, win32, impl # "failing", impl = "reports")
  IN /\ lastOp = "none"
     /\ fs' = r.fs
     /\ Returns("Mkdirs", WalkArg(path, impl), r.ret, r.tried, <<0, 0>>)
     /\ UNCHANGED <<win32, env, calls, data, alive, fd, streams>>

NextWalk ==
  \E impl \in FsImpls :
     \E path \in (IF win32 THEN WalkPaths(TRUE) ELSE WalkPaths(FALSE)) :
        DoMkdirsWalk(path, impl)

SpecWalk == InitWalk /\ [][NextWalk]_vars

----------------------------------------------------------------------------
(* Calls of Mkdirs that run at the same time: a call is one step for        *)
(* std::filesystem::create_directories, which takes a directory made by     *)
(* another call for made, and then one step for each stat and each Mkdir    *)
(* of the walk.                                                             *)

Callers == {1, 2}

Idle == [pc |-> "idle", path |-> <<>>, pos |-> 0, sub_path |-> <<>>, ret |-> FALSE]

\* the call has returned ret
Done(call, ret) == [call EXCEPT !.pc = "done", !.ret = ret]

InitRace ==
  /\ win32 = FALSE
  /\ env = NoEnv
  /\ calls = [c \in Callers |-> Idle]
  /\ \E node \in Nodes, type \in {0, S_IFDIR} : fs = TreeWith(node, type)
  /\ data = NoData
  /\ alive = {}
  /\ fd = <<>>
  /\ streams = <<>>
  /\ lastOp = "none"
  /\ lastArg = <<>>
  /\ lastRet = FALSE
  /\ lastOut = <<>>
  /\ lastNum = <<0, 0>>

\* Mkdirs(path) up to the walk: file.cc:180-196 and the first value of pos
MkdirsBegin(c, path, impl) ==
  LET primary == create_directories(fs, path, win32, impl # "failing",
                                    impl = "reports")
      call == [calls[c] EXCEPT !.path = path]
  IN /\ calls[c].pc = "idle"
     /\ IF path = <<>>
        THEN fs' = fs /\ calls' = [calls EXCEPT ![c] = Done(call, FALSE)]
        ELSE /\ fs' = primary.fs
             /\ calls' =
                  [calls EXCEPT ![c] =
                     IF primary.ret THEN Done(call, TRUE)
                     ELSE IF ~primary.ec /\ fs_exists(primary.fs, path, win32)
                     THEN Done(call, fs_is_directory(primary.fs, path, win32))
                     ELSE [call EXCEPT
                             !.pc = "while",
                             !.pos = WindowsRootPrefixLength(path, win32)]]
     /\ UNCHANGED <<win32, env, data, alive, fd, streams, lastOp, lastArg,
                    lastRet, lastOut, lastNum>>

\* one turn of the while loop up to the call of Mkdir: file.cc:204-216
MkdirsStat(c) ==
  LET call == calls[c]
      next == find_first_of(call.path, {"\\", "/"}, call.pos + 1)
      sub_path == substr(call.path, next)
      info == stat(fs, sub_path, win32)
  IN /\ call.pc = "while"
     /\ calls' =
          [calls EXCEPT ![c] =
             IF call.pos = npos THEN Done(call, TRUE)
             ELSE IF sub_path = <<>> THEN [call EXCEPT !.pos = next]
             ELSE IF info # 0
             THEN IF BitAnd(info, S_IFDIR) # 0 THEN [call EXCEPT !.pos = next]
                  ELSE Done(call, FALSE)
             ELSE [call EXCEPT !.pc = "Mkdir", !.pos = next,
                               !.sub_path = sub_path]]
     /\ UNCHANGED <<win32, env, fs, data, alive, fd, streams, lastOp, lastArg,
                    lastRet, lastOut, lastNum>>

\* the call of Mkdir in the loop: file.cc:217-219
MkdirsMkdir(c) ==
  LET call == calls[c]
      made == Mkdir(fs, call.sub_path, win32)
  IN /\ call.pc = "Mkdir"
     /\ fs' = made.fs
     /\ calls' = [calls EXCEPT ![c] =
                    IF made.ret THEN [call EXCEPT !.pc = "while"]
                    ELSE Done(call, FALSE)]
     /\ UNCHANGED <<win32, env, data, alive, fd, streams, lastOp, lastArg,
                    lastRet, lastOut, lastNum>>

NextRace ==
  \/ \E c \in Callers, path \in Paths, impl \in FsImpls :
        MkdirsBegin(c, path, impl)
  \/ \E c \in Callers : MkdirsStat(c)
  \/ \E c \in Callers : MkdirsMkdir(c)

SpecRace == InitRace /\ [][NextRace]_vars

----------------------------------------------------------------------------
(* The claims about the directory operations *)

\* the entry a path names, by the kernel's resolution: 0 when there is none
EntryAt(f, path) == stat(f, path, FALSE)

\* every ancestor of the node is missing or a directory
AncestorsMissingOrDir(f, node) ==
  \A k \in 1..(Len(node) - 1) :
     At(f, Prefix(node, k)) = 0 \/ S_ISDIR(At(f, Prefix(node, k)))

\* the node and every ancestor of it is a directory
AllPrefixesAreDirs(f, node) ==
  \A k \in 1..Len(node) : S_ISDIR(At(f, Prefix(node, k)))

\* the trees differ at most at the node
SameExceptAt(f, g, node) == \A n \in Nodes : n # node => f[n] = g[n]

\* C1: whenever Mkdirs(p) returns true for a non-empty p whose ancestors are
\* each missing or a directory, p and every ancestor prefix of p is a
\* directory afterwards.
C1_MkdirsMakesEveryPrefix ==
  [][(/\ lastOp' = "Mkdirs"
      /\ lastRet'
      /\ lastArg' # <<>>
      /\ AncestorsMissingOrDir(fs, Components(lastArg', FALSE)))
     => AllPrefixesAreDirs(fs', Components(lastArg', FALSE))]_vars

\* C2: Mkdirs(p) on a p that is a directory returns true and changes nothing;
\* Mkdirs(p) on a p that is an entry of another type returns false.
C2_MkdirsIdempotent ==
  [][lastOp' = "Mkdirs" =>
       /\ S_ISDIR(EntryAt(fs, lastArg')) => (lastRet' /\ fs' = fs)
       /\ (EntryAt(fs, lastArg') # 0 /\ ~S_ISDIR(EntryAt(fs, lastArg')))
            => ~lastRet']_vars

\* C3: Mkdir(d) creates one level.  With no entry at d and d's parent a
\* directory it returns true, d is the only entry that changed, Exists(d) and
\* IsDirectory(d) hold and a second Mkdir(d) fails; with an entry at d, or
\* with no parent, it returns false and changes nothing.
C3_MkdirOneLevel ==
  [][lastOp' = "Mkdir" =>
       LET d == lastArg'
           node == Components(d, FALSE)
           parent == Prefix(node, Len(node) - 1)
       IN IF d # <<>> /\ At(fs, node) = 0 /\ EntryAt(fs, parent) # 0
             /\ S_ISDIR(At(fs, parent)) /\ Walkable(fs, parent)
          THEN /\ lastRet'
               /\ SameExceptAt(fs, fs', node)
               /\ Exists(fs', d, FALSE)
               /\ IsDirectory(fs', d, FALSE)
               /\ ~Mkdir(fs', d, FALSE).ret
          ELSE (At(fs, node) # 0 \/ ~Walkable(fs, parent)
                  \/ At(fs, parent) = 0)
               => (~lastRet' /\ fs' = fs)]_vars

\* a Mkdir that created a directory below one that is not the root
C3_Witness ==
  /\ lastOp = "Mkdir"
  /\ lastRet
  /\ Len(Components(lastArg, FALSE)) = 2
  /\ IsDirectory(fs, lastArg, FALSE)

\* C4: for every path, Exists is true exactly when an entry is present, and
\* IsDirectory exactly when an entry is present and is a directory.
C4_ExistsAndIsDirectory ==
  \A p \in Paths :
     /\ Exists(fs, p, FALSE) <=> EntryAt(fs, p) # 0
     /\ IsDirectory(fs, p, FALSE) <=> S_ISDIR(EntryAt(fs, p))

\* C5: Remove(p) returns true and deletes the entry p alone when p is an
\* empty directory or an entry of another type, after which Exists(p) is
\* false and a second Remove(p) fails; it returns false and changes nothing
\* when p does not exist or is a directory that is not empty.
C5_Remove ==
  [][lastOp' = "Remove" =>
       LET p == lastArg'
           node == Components(p, FALSE)
           entry == EntryAt(fs, p)
       IN IF node # Root /\ entry # 0 /\ (S_ISDIR(entry) => ~HasChild(fs, node))
          THEN /\ lastRet'
               /\ fs' = [fs EXCEPT ![node] = 0]
               /\ ~Exists(fs', p, FALSE)
               /\ ~Remove(fs', p, FALSE).ret
          ELSE (entry = 0 \/ (S_ISDIR(entry) /\ HasChild(fs, node)))
               => (~lastRet' /\ fs' = fs)]_vars

----------------------------------------------------------------------------
(* The claims about the File handle *)

\* the world of the stream "f" holds, before and after a step
Before == [data |-> data, st |-> streams[fd["f"]]]
After == [data |-> data', st |-> streams'[fd["f"]]]

\* the contents of the stream's file with the unflushed bytes in place
View(W) == fflush(W).data[W.st.node]

\* the n bytes of s from offset pos on
Slice(s, pos, n) == BTake(BDrop(s, pos), n)

\* C6: a Write of s to a file just opened in mode "w" returns true and leaves
\* Tell() = Length() = len(s); once written and closed (WriteContentsToFile)
\* the file holds s, and reading a closed file in mode "r" with ReadContents
\* or ReadContentsFromFile returns exactly what it holds.
C6_WriteReadRoundTrip ==
  [][/\ (/\ lastOp' = "Write"
         /\ Before.st.mode = "w"
         /\ Before.st.pos = <<0, 0>>
         /\ View(Before) = <<>>)
        => /\ lastRet'
           /\ Tell(After) = BLen(lastArg'.str)
           /\ Length(After).ret = BLen(lastArg'.str)
     /\ (lastOp' = "WriteContentsToFile" /\ lastArg'.mode = "w")
        => data'[Components(lastArg'.path, FALSE)] = lastArg'.str
     /\ (lastOp' = "ReadContentsFromFile" /\ lastArg'.mode = "r")
        => /\ lastRet'
           /\ lastOut' = data[Components(lastArg'.path, FALSE)]
     /\ (lastOp' = "ReadContents" /\ Before.st.mode = "r")
        => /\ lastRet'
           /\ lastOut' = data[Before.st.node]]_vars

\* C7: Read(count) on a readable stream at pos returns the n bytes of the
\* file from pos on, n the smaller of count and len - pos, and advances the
\* position by n, the length of what it returned.
C7_ReadReturnsSlice ==
  [][(lastOp' = "Read" /\ Before.st.mode = "r") =>
       LET s == data[Before.st.node]
           n == SzMin(lastArg'.n, SzSub(BLen(s), Before.st.pos))
       IN /\ lastRet'
          /\ lastOut' = Slice(s, Before.st.pos, n)
          /\ After.st.pos = SzAdd(Before.st.pos, n)
          /\ After.st.pos = SzAdd(Before.st.pos, BLen(lastOut'))]_vars

\* C8: ReadContents() on a readable stream, whatever its position, returns
\* the whole file, Length() bytes, and leaves the position at the end.
C8_ReadContentsWholeFile ==
  [][(lastOp' = "ReadContents" /\ Before.st.mode = "r") =>
       /\ lastRet'
       /\ lastOut' = data[Before.st.node]
       /\ BLen(lastOut') = Length(Before).ret
       /\ Tell(After) = Length(After).ret]_vars

\* C9: Length() returns the size of the stream's file in bytes, the bytes
\* written and not yet flushed counted, and leaves the position and the
\* contents as they were.
C9_LengthKeepsPosition ==
  [][lastOp' = "Length" =>
       /\ lastNum' = BLen(View(Before))
       /\ Tell(After) = Tell(Before)
       /\ View(After) = View(Before)
       /\ After.st.mode = "r" => data' = data]_vars

\* Length() ran on a stream in the middle of its file
C9_Witness ==
  /\ lastOp = "Length"
  /\ fd["f"] # 0
  /\ SzLess(<<0, 0>>, streams[fd["f"]].pos)
  /\ SzLess(streams[fd["f"]].pos, lastNum)

\* no two File objects hold the same stream, and a held stream is open
Exclusive ==
  /\ \A h1 \in Handles, h2 \in Handles :
        (h1 # h2 /\ fd[h1] # 0) => fd[h1] # fd[h2]
  /\ \A h \in Handles :
        fd[h] # 0 => (h \in alive /\ streams[fd[h]].state = "open")

\* C10: at most one File object owns a stream, and a move leaves the source
\* with none and the destination with the stream the source held, its
\* position and the contents of the files unchanged.
C10_ExclusiveOwnership ==
  [][/\ Exclusive'
     /\ lastOp' \in {"MoveConstruct", "MoveAssign"} =>
          /\ fd'[lastArg'.src] = 0
          /\ fd'[lastArg'.h] = fd[lastArg'.src]
          /\ fd[lastArg'.src] # 0
               => streams'[fd[lastArg'.src]] = streams[fd[lastArg'.src]]
          /\ data' = data]_vars

\* a move assignment handed over a stream that bytes were written to
C10_Witness ==
  /\ lastOp = "MoveAssign"
  /\ fd[lastArg.src] = 0
  /\ fd[lastArg.h] # 0
  /\ streams[fd[lastArg.h]].wbuf # <<>>

\* C11: every stream that was opened is flushed and closed exactly once: a
\* stream is open only while exactly one File object holds it, a stream no
\* longer open was closed with nothing left unflushed and is held by no one,
\* Close and the destructor close only a stream that is open, and the
\* destructor of a File that holds no stream does nothing.
C11_ReleasedExactlyOnce ==
  [][/\ \A i \in 1..Len(streams') :
          /\ streams'[i].state \in {"open", "closed"}
          /\ streams'[i].state = "open"
               => Cardinality({h \in alive' : fd'[h] = i}) = 1
          /\ streams'[i].state = "closed"
               => /\ streams'[i].wbuf = <<>>
                  /\ \A h \in Handles : fd'[h] # i
     /\ (lastOp' \in {"Close", "Destroy"} /\ fd[lastArg'.h] # 0)
          => /\ streams[fd[lastArg'.h]].state = "open"
             /\ streams'[fd[lastArg'.h]].state = "closed"
     /\ (lastOp' = "Destroy" /\ fd[lastArg'.h] = 0)
          => streams' = streams /\ data' = data]_vars

----------------------------------------------------------------------------
(* The claims about GetTmpDir *)

\* the variable is set to a string that is not empty
NonEmpty(key) == env[key].set /\ env[key].val # <<>>

\* the path names a directory
IsDir(path) == S_ISDIR(stat(fs, path, win32))

\* the path without its trailing separators, a lone separator kept
RECURSIVE StripTrailing(_)
StripTrailing(path) ==
  IF Len(path) > 1 /\ path[Len(path)] \in {"/", "\\"}
  THEN StripTrailing(SubSeq(path, 1, Len(path) - 1))
  ELSE path

\* C12: on POSIX GetTmpDir() returns the value of TMPDIR when TMPDIR is set
\* and not empty, and "/tmp" when it is unset or set to the empty string.
C12_PosixTmpDir ==
  (lastOp = "GetTmpDir" /\ ~win32) =>
     lastOut = IF NonEmpty("TMPDIR") THEN env["TMPDIR"].val
               ELSE <<"/", "tmp">>

\* C13: on POSIX, with TMPDIR set to a path that is not an existing
\* directory, GetTmpDir() returns "/tmp" if that is a directory, else
\* "/var/tmp" if that is a directory, else ".".
C13_PosixTmpDirFallback ==
  (lastOp = "GetTmpDir" /\ ~win32 /\ NonEmpty("TMPDIR")
     /\ ~IsDir(env["TMPDIR"].val)) =>
     lastOut = IF IsDir(<<"/", "tmp">>) THEN <<"/", "tmp">>
               ELSE IF IsDir(<<"/", "var", "/", "tmp">>)
               THEN <<"/", "var", "/", "tmp">>
               ELSE <<".">>

\* C14: when the value GetTmpDir() resolves is an existing directory d
\* followed by trailing separators, GetTmpDir() returns d without them.
C14_TmpDirTrailingSeparators ==
  (lastOp = "GetTmpDir" /\ ~win32 /\ NonEmpty("TMPDIR")
     /\ TrailingSep(env["TMPDIR"].val, win32)
     /\ IsDir(StripTrailing(env["TMPDIR"].val))) =>
     lastOut = StripTrailing(env["TMPDIR"].val)

\* the temporary path the operating system gives when TMP, TEMP and
\* LOCALAPPDATA give none, normalised
OsTempPath == <<"C:", "\\", "Windows", "\\", "Temp">>

\* C15: on Windows GetTmpDir() returns the first of TMP, TEMP and
\* LOCALAPPDATA that is not empty, and the path the operating system
\* provides when all three are empty.
C15_WindowsTmpDirOrder ==
  (lastOp = "GetTmpDir" /\ win32) =>
     lastOut = IF NonEmpty("TMP") THEN env["TMP"].val
               ELSE IF NonEmpty("TEMP") THEN env["TEMP"].val
               ELSE IF NonEmpty("LOCALAPPDATA") THEN env["LOCALAPPDATA"].val
               ELSE OsTempPath

----------------------------------------------------------------------------
(* The claims about Mkdirs and the root prefix *)

\* C16: Mkdirs("") returns false, whatever the file system holds and
\* whatever std::filesystem does, and leaves the file system as it was.
C16_MkdirsEmptyPath ==
  [][(lastOp' = "Mkdirs" /\ lastArg' = <<>>) =>
       (~lastRet' /\ fs' = fs)]_vars

\* Mkdirs("") ran on a file system that holds entries
C16_Witness ==
  /\ lastOp = "Mkdirs"
  /\ lastArg = <<>>
  /\ ~lastRet
  /\ \E n \in Nodes : n # Root /\ fs[n] # 0

\* the 0-based indices, from 2 on, of the separators of the path
SeparatorsAfterRoot(path) ==
  {i \in 2..(Len(path) - 1) : path[i + 1] \in {"\\", "/"}}

\* the prefix length the claim gives a path on a Windows build
ClaimedPrefixLength(path) ==
  IF Len(path) >= 2 /\ path[1] \in DriveLetters /\ path[2] = ":"
  THEN IF Len(path) >= 3 /\ path[3] \in {"\\", "/"} THEN 3 ELSE 2
  ELSE IF Len(path) >= 2 /\ path[1] = "\\" /\ path[2] = "\\"
  THEN IF Cardinality(SeparatorsAfterRoot(path)) < 2 THEN Len(path)
       ELSE CHOOSE i \in SeparatorsAfterRoot(path) :
              Cardinality({j \in SeparatorsAfterRoot(path) : j < i}) = 1
  ELSE 0

\* C17: on a Windows build WindowsRootPrefixLength returns 2 or 3 for a
\* drive letter followed by ':' and an optional separator, for the UNC form
\* the index past the server and share segments or the whole length when
\* one of them is unterminated, and 0 for every other path, those whose
\* second character is ':' after a first that is no letter included; the
\* result lies between 0 and the length of the path.
C17_WindowsRootPrefixLength ==
  (lastOp = "WindowsRootPrefixLength" /\ win32) =>
     /\ lastNum = Sz(ClaimedPrefixLength(lastArg))
     /\ SzLeq(lastNum, Sz(Len(lastArg)))

\* C18: every sub-path the fallback walk of Mkdirs passes to Mkdir is
\* strictly longer than the root prefix of the path, so no drive and no
\* unterminated server or share is passed to it.
C18_WalkSkipsRootPrefix ==
  lastOp = "Mkdirs" =>
     \A i \in 1..Len(lastOut) :
        Len(lastOut[i]) > WindowsRootPrefixLength(lastArg.path, win32)

\* C20: the walk of the fallback alone, on a platform whose primary fails,
\* leaves the directories on disk that the primary,
\* std::filesystem::create_directories, would leave from the same file
\* system, for every path that is not empty.
C20_WalkEqualsPrimary ==
  [][(lastOp' = "Mkdirs" /\ lastArg'.impl = "failing" /\ lastArg'.path # <<>>)
       => fs' = create_directories(fs, lastArg'.path, win32, TRUE, TRUE).fs]_vars

\* C19: when two calls of Mkdirs on paths that are not empty have both
\* returned, nothing having failed but that the other call made a
\* directory first, both returned true and every directory of both paths
\* exists.
C19_ConcurrentMkdirs ==
  (\A c \in Callers : calls[c].pc = "done" /\ calls[c].path # <<>>) =>
     \A c \in Callers :
        /\ calls[c].ret
        /\ AllPrefixesAreDirs(fs, Components(calls[c].path, win32))

====
